---- MODULE Spec2Model ----
(***************************************************************************)
(* Model of vm/core/src/signal.c of RoboVM: the translation of SIGSEGV and *)
(* SIGBUS faults into java.lang.NullPointerException and                   *)
(* java.lang.StackOverflowError.                                           *)
(*                                                                         *)
(* The process has the threads 1..NumThreads.  The threads in envs are      *)
(* runtime threads (rvmGetEnv() returns their Env); the last thread may be *)
(* an OS thread the runtime does not manage.  The signal handler is        *)
(* modelled step by step, so that the steps of two handlers, and of a      *)
(* handler and rvmSetupSignals on another thread, interleave.              *)
(*                                                                         *)
(* Three specifications share the actions:                                 *)
(*   Spec          the public operations in any order, and one fault;      *)
(*   CallSpec      the public operations with every call and its result    *)
(*                 recorded in lastCall, on threads that change their      *)
(*                 blocked sets between the calls;                         *)
(*   HandlersSpec  threads that are set up, and two faults.                *)
(***************************************************************************)
EXTENDS Integers, FiniteSets, Sequences, TLC

----------------------------------------------------------------------------
(* Bounds of the model *)

\* number of threads of the process
NumThreads == 2

\* number of hardware faults raised in one run
MaxFaults == 1

----------------------------------------------------------------------------
(* Program constants and values *)

\* the NULL pointer, and the Env* rvmGetEnv() returns for an unmanaged thread
NULL == 0

\* the highest address of the model: pointer arithmetic wraps past it, as
\* the 32-bit pointers of the supported platforms (x86, thumbv7) wrap
PtrMax == 2147483647

\* 64k, the distance of the stack probe emitted in method prologues
THREAD_STACK_GUARD_SIZE == 65536

\* distance between the stack bases of two runtime threads (0x1000000)
StackStride == 256 * THREAD_STACK_GUARD_SIZE

\* errno values a failing sigaction()/pthread_sigmask() reports
EFAULT == 14
EINVAL == 22

SIGBUS == "SIGBUS"
SIGSEGV == "SIGSEGV"
SIGUSR1 == "SIGUSR1"
SIG_DFL == "SIG_DFL"
signalHandlerFn == "signalHandler"

java_lang_NullPointerException == "java_lang_NullPointerException"
java_lang_StackOverflowError == "java_lang_StackOverflowError"
java_lang_InternalError == "java_lang_InternalError"
NoClass == "NULL"

\* the (OS family, CPU) pairs getFramePointer/getPC have a branch for
Platforms == {"DARWIN_X86", "DARWIN_THUMBV7", "LINUX_X86"}

Threads == 1..NumThreads
FaultSignals == {SIGBUS, SIGSEGV}
Errnos == {EFAULT, EINVAL}
OSResults == {0} \cup Errnos


\* a frame reference of no frame, and the value of an unset stackState field
NoFrame == [prev |-> 0, returnAddress |-> 0]

\* Object*: NullObject is the NULL reference
NullObject == [class |-> NoClass, code |-> 0, stackState |-> NoFrame]

\* the machine context the OS hands to the handler: the registers of the
\* interrupted thread t
ContextOf(t) ==
    [ebp |-> 10 * t + 1, eip |-> 10 * t + 2, r7 |-> 10 * t + 3, pc |-> 10 * t + 4]

\* the two non-null addresses of the documented scenario: 0x0FFFFF00, 0x2000000
ScenarioAddrs == {268435200, 33554432}

\* faulting addresses of a thread whose stack base is base: none, the edges of
\* its guard region and, under the scenario's stack base, the scenario's
FaultAddrs(base) ==
    {0, base - THREAD_STACK_GUARD_SIZE - 1, base - THREAD_STACK_GUARD_SIZE,
     base - 1, base}
    \cup (IF base = StackStride THEN ScenarioAddrs ELSE {})

\* si_addr of a signal generated by kill(): it is no faulting address, and
\* reads as null, as an address of the guard region, or as another address
KillAddrs(base) == {0, base - 1, base}

----------------------------------------------------------------------------
VARIABLES
    platform,        \* build configuration (DARWIN/LINUX, RVM_X86/RVM_THUMBV7)
    envs,            \* the threads that have an Env (the runtime's threads)
    stackStateField, \* static InstanceField* stackStateField
    disposition,     \* process-wide signal dispositions (sigaction)
    signalMask,      \* env->currentThread->signalMask
    stackAddr,       \* env->currentThread->stackAddr: the thread's stack base
    blocked,         \* the OS's blocked-signal set of every thread
    throwable,       \* env->throwable: the exception pending on an Env
    h,               \* the signalHandler invocation of every thread
    pending,         \* signals generated by kill() and not yet delivered
    faults,          \* hardware faults raised so far
    terminated,      \* the process was terminated by a signal's default action
    lastCall         \* the latest call of a public operation and what it returned

vars == <<platform, envs, stackStateField, disposition, signalMask, stackAddr,
          blocked, throwable, h, pending, faults, terminated, lastCall>>

----------------------------------------------------------------------------
(* Pure helpers *)

Darwin == platform \in {"DARWIN_X86", "DARWIN_THUMBV7"}

\* Env* rvmGetEnv(void) on thread t: the Env is named by its thread
rvmGetEnv(t) == IF t \in envs THEN t ELSE NULL

\* env->currentThread->stackAddr (a read through a null Env yields garbage)
EnvStackAddr(env) == IF env \in envs THEN stackAddr[env] ELSE 0

\* env->throwable (a read through a null Env yields garbage)
EnvThrowable(env) == IF env \in envs THEN throwable[env] ELSE NullObject

\* pointer subtraction, (void*) (stackAddr - THREAD_STACK_GUARD_SIZE), wrapping
PtrSub(a, b) == IF a >= b THEN a - b ELSE PtrMax - (b - a) + 1

\* getFramePointer reading the program counter's register
getFramePointer_ReadsPC(context) ==
    CASE platform = "DARWIN_X86" -> context.eip
      [] platform = "DARWIN_THUMBV7" -> context.pc
      [] platform = "LINUX_X86" -> context.eip

getFramePointer(context) ==
    CASE platform = "DARWIN_X86" -> context.ebp
      [] platform = "DARWIN_THUMBV7" -> context.r7
      [] platform = "LINUX_X86" -> context.ebp

getPC(context) ==
    CASE platform = "DARWIN_X86" -> context.eip
      [] platform = "DARWIN_THUMBV7" -> context.pc
      [] platform = "LINUX_X86" -> context.eip

\* line 123 without its test of the frame: every fault on a runtime thread is
\* treated
FrameGuard_IgnoresNative(env, nonNative) ==
    IF env = NULL THEN [handles |-> FALSE, envReads |-> 0]
    ELSE [handles |-> TRUE, envReads |-> 0]

\* line 123 without its test of env
FrameGuard_NoEnvTest(env, nonNative) == [handles |-> nonNative, envReads |-> 1]

\* the condition of line 123, env && rvmIsNonNativeFrame(env): whether the
\* handler treats the fault, and how often it read through env to decide
FrameGuard(env, nonNative) ==
    IF env = NULL THEN [handles |-> FALSE, envReads |-> 0]
    ELSE [handles |-> nonNative, envReads |-> 1]

\* lines 126-133 with the guard region's lowest address left out (> for >=)
ExClass_LowerExclusive(faultAddr, stackBase) ==
    IF faultAddr = NULL THEN java_lang_NullPointerException
    ELSE IF faultAddr < stackBase
            /\ faultAddr > PtrSub(stackBase, THREAD_STACK_GUARD_SIZE)
         THEN java_lang_StackOverflowError
         ELSE NoClass

\* lines 126-133 without the test faultAddr < stackAddr
ExClass_NoUpperBound(faultAddr, stackBase) ==
    IF faultAddr = NULL THEN java_lang_NullPointerException
    ELSE IF faultAddr >= PtrSub(stackBase, THREAD_STACK_GUARD_SIZE)
         THEN java_lang_StackOverflowError
         ELSE NoClass

\* lines 126-133: the class of the exception to raise, NULL for none
ExClass(faultAddr, stackBase) ==
    IF faultAddr = NULL THEN java_lang_NullPointerException
    ELSE IF faultAddr < stackBase
            /\ faultAddr >= PtrSub(stackBase, THREAD_STACK_GUARD_SIZE)
         THEN java_lang_StackOverflowError
         ELSE NoClass

\* Object* rvmAllocateObject(env, clazz) when it succeeds
NewObject(class) == [class |-> class, code |-> 0, stackState |-> NoFrame]

\* the InternalError rvmThrowInternalErrorErrno(env, errnum) makes pending
InternalError(errnum) ==
    [class |-> java_lang_InternalError, code |-> errnum, stackState |-> NoFrame]

\* rvmTearDownSignals removing the handlers: every disposition back to default
rvmTearDownSignals_Uninstalls(disp) == [s \in DOMAIN disp |-> SIG_DFL]

\* void rvmTearDownSignals(Env* env) {}: what it leaves of the dispositions
rvmTearDownSignals(disp) == disp

----------------------------------------------------------------------------
(* The signalHandler invocation of a thread *)

NoContext == [ebp |-> 0, eip |-> 0, r7 |-> 0, pc |-> 0]
\* who generated a pending signal: the thread whose handler called kill(), whether
\* it had an Env, and how often that invocation had called rvmRaiseException
NoSender == [thread |-> 0, env |-> NULL, raises |-> 0]

\* pc: idle | allocate | store | raise | reset | kill
\* cause: fault (a hardware fault) | kill (a signal generated by kill())
IdleHandler ==
    [pc |-> "idle", signum |-> "none", cause |-> "none", sender |-> NoSender,
     faultAddr |-> 0, context |-> NoContext, env |-> NULL, nonNative |-> FALSE,
     envReads |-> 0, exClass |-> NoClass,
     allocs |-> 0, allocClass |-> NoClass, allocOk |-> FALSE,
     pendingBefore |-> NullObject, throwable |-> NullObject,
     fakeFrame |-> NoFrame, callStack |-> NoFrame, field |-> "NULL",
     raises |-> 0, raised |-> NullObject,
     resets |-> 0, resetSig |-> "none",
     savedMask |-> {}]

\* lines 121-133: the handler is entered on thread t and decides exClass
EnterHandler(t, signum, faultAddr, context, nonNative, cause, sender) ==
    LET env == rvmGetEnv(t)
        guard == FrameGuard(env, nonNative)
        exClass == IF guard.handles
                   THEN ExClass(faultAddr, EnvStackAddr(env))
                   ELSE NoClass
    IN [IdleHandler EXCEPT
          !.pc = IF exClass # NoClass THEN "allocate" ELSE "reset",
          !.signum = signum, !.cause = cause, !.sender = sender,
          !.faultAddr = faultAddr, !.context = context, !.env = env,
          !.nonNative = nonNative,
          !.envReads = guard.envReads + (IF guard.handles THEN 1 ELSE 0),
          !.exClass = exClass, !.savedMask = blocked[t]]

InHandler(t) == h[t].pc \in {"allocate", "store", "raise", "reset", "kill"}

\* thread t runs code of the program: it is not inside the handler, and no
\* signal generated by kill() waits to be delivered to it
CanRun(t) ==
    /\ ~terminated
    /\ ~InHandler(t)
    /\ \A s \in FaultSignals : pending[s] # NoSender => s \in blocked[t]

\* no call of a public operation was observed
NoCall == [op |-> "none", thread |-> 0, ret |-> TRUE, errs |-> <<0, 0, 0>>,
           before |-> {}]

----------------------------------------------------------------------------
Init ==
    /\ platform \in Platforms
    /\ envs \in {Threads, Threads \ {NumThreads}}
    /\ stackStateField = "NULL"
    /\ disposition = [s \in FaultSignals |-> SIG_DFL]
    /\ signalMask = [t \in Threads |-> {}]
    /\ stackAddr = [t \in Threads |-> t * StackStride]
    /\ blocked = [t \in Threads |-> {}]
    /\ throwable = [t \in Threads |-> NullObject]
    /\ h = [t \in Threads |-> IdleHandler]
    /\ pending = [s \in FaultSignals |-> NoSender]
    /\ faults = 0
    /\ terminated = FALSE
    /\ lastCall = NoCall

----------------------------------------------------------------------------
(* Public operations *)

\* lines 41-45; found: whether rvmGetInstanceField resolves Throwable.stackState
rvmInitSignals(t, found) ==
    /\ CanRun(t)
    /\ t \in envs
    /\ stackStateField' = IF found THEN "stackState" ELSE "NULL"
    /\ UNCHANGED <<platform, envs, disposition, signalMask, stackAddr, blocked, throwable,
                   h, pending, faults, terminated>>

\* installSignalHandlers without the #if defined(DARWIN) of line 54: SIGBUS is
\* registered on every platform
installSignalHandlers_AlwaysBus(t, busErr, segvErr, maskErr) ==
    LET d1 == IF busErr = 0 THEN [disposition EXCEPT ![SIGBUS] = signalHandlerFn]
              ELSE disposition
        d2 == [d1 EXCEPT ![SIGSEGV] = signalHandlerFn]
        errnum == IF busErr # 0 THEN busErr
                  ELSE IF segvErr # 0 THEN segvErr ELSE maskErr
    IN IF errnum # 0
       THEN [ret |-> FALSE,
             disposition |-> IF segvErr # 0 \/ busErr # 0 THEN d1 ELSE d2,
             throwable |-> InternalError(errnum), signalMask |-> signalMask[t]]
       ELSE [ret |-> TRUE, disposition |-> d2, throwable |-> throwable[t],
             signalMask |-> blocked[t]]

\* installSignalHandlers with the result of pthread_sigmask (line 70) not
\* looked at, as line 87 does not look at it
installSignalHandlers_IgnoresMaskError(t, busErr, segvErr, maskErr) ==
    LET d1 == IF Darwin /\ busErr = 0
              THEN [disposition EXCEPT ![SIGBUS] = signalHandlerFn]
              ELSE disposition
        d2 == [d1 EXCEPT ![SIGSEGV] = signalHandlerFn]
    IN IF Darwin /\ busErr # 0
       THEN [ret |-> FALSE, disposition |-> disposition,
             throwable |-> InternalError(busErr), signalMask |-> signalMask[t]]
       ELSE IF segvErr # 0
       THEN [ret |-> FALSE, disposition |-> d1,
             throwable |-> InternalError(segvErr), signalMask |-> signalMask[t]]
       ELSE [ret |-> TRUE, disposition |-> d2, throwable |-> throwable[t],
             signalMask |-> IF maskErr = 0 THEN blocked[t] ELSE signalMask[t]]

\* installSignalHandlers capturing the blocked set on the thread's first call
\* only: a later call keeps the mask stored before
installSignalHandlers_CapturesOnce(t, busErr, segvErr, maskErr) ==
    LET d1 == IF Darwin THEN [disposition EXCEPT ![SIGBUS] = signalHandlerFn]
              ELSE disposition
        d2 == [d1 EXCEPT ![SIGSEGV] = signalHandlerFn]
        errnum == IF busErr # 0 THEN busErr
                  ELSE IF segvErr # 0 THEN segvErr ELSE maskErr
    IN IF errnum # 0
       THEN [ret |-> FALSE,
             disposition |-> IF busErr # 0 THEN disposition
                             ELSE IF segvErr # 0 THEN d1 ELSE d2,
             throwable |-> InternalError(errnum), signalMask |-> signalMask[t]]
       ELSE [ret |-> TRUE, disposition |-> d2, throwable |-> throwable[t],
             signalMask |-> IF signalMask[t] = {} THEN blocked[t]
                            ELSE signalMask[t]]

\* lines 47-77; busErr, segvErr, maskErr: the results of the two sigaction()
\* calls and of pthread_sigmask(), 0 for success
installSignalHandlers(t, busErr, segvErr, maskErr) ==
    LET d0 == disposition
        d1 == IF Darwin /\ busErr = 0
              THEN [d0 EXCEPT ![SIGBUS] = signalHandlerFn] ELSE d0
        d2 == [d1 EXCEPT ![SIGSEGV] = signalHandlerFn]
        Failed(d, errnum) ==
            [ret |-> FALSE, disposition |-> rvmTearDownSignals(d),
             throwable |-> InternalError(errnum), signalMask |-> signalMask[t]]
    IN IF Darwin /\ busErr # 0 THEN Failed(d0, busErr)
       ELSE IF segvErr # 0 THEN Failed(d1, segvErr)
       ELSE IF maskErr # 0 THEN Failed(d2, maskErr)
       ELSE [ret |-> TRUE, disposition |-> d2,
             throwable |-> throwable[t], signalMask |-> blocked[t]]

\* the results of the OS calls one installSignalHandlers makes: a call that is
\* not made (not compiled in, or after a failure) has no result, written 0
CallsMade(busErr, segvErr, maskErr) ==
    /\ ~Darwin => busErr = 0
    /\ busErr # 0 => segvErr = 0
    /\ (busErr # 0 \/ segvErr # 0) => maskErr = 0

\* lines 79-84
rvmSetupSignals(t, busErr, segvErr, maskErr) ==
    /\ CanRun(t)
    /\ t \in envs
    /\ LET r == installSignalHandlers(t, busErr, segvErr, maskErr)
       IN /\ disposition' = r.disposition
          /\ throwable' = [throwable EXCEPT ![t] = r.throwable]
          /\ signalMask' = [signalMask EXCEPT ![t] = r.signalMask]
    /\ UNCHANGED <<platform, envs, stackStateField, stackAddr, blocked, h, pending,
                   faults, terminated>>

\* line 87 with the arguments of line 70, pthread_sigmask(0, NULL, &signalMask):
\* the blocked set is read into the stored mask
rvmRestoreSignalMask_Captures(t, err) ==
    /\ CanRun(t)
    /\ t \in envs
    /\ signalMask' = IF err = 0 THEN [signalMask EXCEPT ![t] = blocked[t]]
                     ELSE signalMask
    /\ UNCHANGED <<platform, envs, stackStateField, disposition, blocked, stackAddr,
                   throwable, h, pending, faults, terminated>>

\* line 87 with SIG_BLOCK for SIG_SETMASK: the stored set is added to the
\* blocked set
rvmRestoreSignalMask_Blocks(t, err) ==
    /\ CanRun(t)
    /\ t \in envs
    /\ blocked' = IF err = 0
                  THEN [blocked EXCEPT ![t] = @ \cup signalMask[t]] ELSE blocked
    /\ UNCHANGED <<platform, envs, stackStateField, disposition, signalMask, stackAddr,
                   throwable, h, pending, faults, terminated>>

\* line 87 treated as line 70 is: a failing pthread_sigmask raises an
\* InternalError carrying its result
rvmRestoreSignalMask_Throws(t, err) ==
    /\ CanRun(t)
    /\ t \in envs
    /\ blocked' = IF err = 0 THEN [blocked EXCEPT ![t] = signalMask[t]] ELSE blocked
    /\ throwable' = IF err = 0 THEN throwable
                    ELSE [throwable EXCEPT ![t] = InternalError(err)]
    /\ UNCHANGED <<platform, envs, stackStateField, disposition, signalMask, stackAddr,
                   h, pending, faults, terminated>>

\* lines 86-88; err: the result of pthread_sigmask(SIG_SETMASK, ...)
rvmRestoreSignalMask(t, err) ==
    /\ CanRun(t)
    /\ t \in envs
    /\ blocked' = IF err = 0 THEN [blocked EXCEPT ![t] = signalMask[t]] ELSE blocked
    /\ UNCHANGED <<platform, envs, stackStateField, disposition, signalMask, stackAddr,
                   throwable, h, pending, faults, terminated>>

\* lines 90-91, called on its own
TearDownSignals(t) ==
    /\ CanRun(t)
    /\ t \in envs
    /\ disposition' = rvmTearDownSignals(disposition)
    /\ UNCHANGED <<platform, envs, stackStateField, signalMask, stackAddr, blocked,
                   throwable, h, pending, faults, terminated>>

----------------------------------------------------------------------------
(* Signal delivery by the OS *)

\* the OS delivers signum to thread t: the default action ends the process,
\* the handler runs with signum added to the thread's blocked set
Deliver(t, signum, faultAddr, context, nonNative, cause, sender) ==
    IF disposition[signum] = SIG_DFL \/ signum \in blocked[t]
    THEN /\ terminated' = TRUE
         /\ UNCHANGED <<h, blocked>>
    ELSE /\ h' = [h EXCEPT ![t] = EnterHandler(t, signum, faultAddr, context,
                                               nonNative, cause, sender)]
         /\ blocked' = [blocked EXCEPT ![t] = @ \cup {signum}]
         /\ UNCHANGED terminated

\* an illegal memory access of thread t raises signum
Fault(t, signum, faultAddr, context, nonNative) ==
    /\ CanRun(t)
    /\ faults < MaxFaults
    /\ faults' = faults + 1
    /\ Deliver(t, signum, faultAddr, context, nonNative, "fault", NoSender)
    /\ UNCHANGED <<platform, envs, stackStateField, disposition, signalMask, stackAddr,
                   throwable, pending>>

\* a signal generated by kill(0, signum) is delivered to a thread that does not
\* block it; its si_addr is not a faulting address
DeliverPending(t, signum, faultAddr, context, nonNative) ==
    /\ ~terminated
    /\ ~InHandler(t)
    /\ pending[signum] # NoSender
    /\ signum \notin blocked[t]
    /\ pending' = [pending EXCEPT ![signum] = NoSender]
    /\ Deliver(t, signum, faultAddr, context, nonNative, "kill", pending[signum])
    /\ UNCHANGED <<platform, envs, stackStateField, disposition, signalMask, stackAddr,
                   throwable, faults>>

----------------------------------------------------------------------------
(* The steps of signalHandler, lines 135-156 *)

\* lines 136-139; ok: whether rvmAllocateObject returns an object
Allocate(exClass, ok, pendingEx) ==
    IF ok THEN [throwable |-> NewObject(exClass), pendingEx |-> pendingEx]
    ELSE [throwable |-> pendingEx, pendingEx |-> NullObject]

HandlerAllocate(t, ok) ==
    /\ ~terminated
    /\ h[t].pc = "allocate"
    /\ LET r == Allocate(h[t].exClass, ok, EnvThrowable(h[t].env))
       IN /\ h' = [h EXCEPT ![t].pc = "store",
                            ![t].allocs = @ + 1,
                            ![t].allocClass = h[t].exClass,
                            ![t].allocOk = ok,
                            ![t].pendingBefore = EnvThrowable(h[t].env),
                            ![t].throwable = r.throwable]
          /\ throwable' = IF h[t].env \in envs
                          THEN [throwable EXCEPT ![h[t].env] = r.pendingEx]
                          ELSE throwable
    /\ UNCHANGED <<platform, envs, stackStateField, disposition, signalMask, stackAddr,
                   blocked, pending, faults, terminated>>

\* lines 140-142
FakeFrame(context) ==
    [prev |-> getFramePointer(context), returnAddress |-> getPC(context)]

\* lines 140-144; crash: what the store through a null throwable or a null
\* stackStateField, which is undefined, does: it faults inside the handler
\* (the process dies) or it goes unnoticed
HandlerStore(t, crash) ==
    /\ ~terminated
    /\ h[t].pc = "store"
    /\ LET fakeFrame == FakeFrame(h[t].context)
           callStack == fakeFrame
           defined == h[t].throwable # NullObject /\ stackStateField # "NULL"
       IN IF ~defined /\ crash
          THEN /\ terminated' = TRUE
               /\ h' = [h EXCEPT ![t].fakeFrame = fakeFrame,
                                 ![t].callStack = callStack,
                                 ![t].field = stackStateField]
          ELSE /\ terminated' = terminated
               /\ h' = [h EXCEPT ![t].pc = "raise",
                                 ![t].fakeFrame = fakeFrame,
                                 ![t].callStack = callStack,
                                 ![t].field = stackStateField,
                                 ![t].throwable =
                                     IF defined
                                     THEN [@ EXCEPT !.stackState = callStack]
                                     ELSE @]
    /\ UNCHANGED <<platform, envs, stackStateField, disposition, signalMask, stackAddr,
                   blocked, throwable, pending, faults>>

\* whether rvmRaiseException(env, throwable) comes back to its caller
RaiseReturns == BOOLEAN

\* line 145; returns = FALSE: control goes to the exception's handler in the
\* interrupted thread, and the signal stays blocked
HandlerRaise(t, returns) ==
    /\ ~terminated
    /\ h[t].pc = "raise"
    /\ h' = [h EXCEPT ![t] =
                IF returns
                THEN [@ EXCEPT !.pc = "reset", !.raises = @ + 1,
                               !.raised = h[t].throwable]
                ELSE IdleHandler]
    /\ UNCHANGED <<platform, envs, stackStateField, disposition, signalMask, stackAddr,
                   blocked, throwable, pending, faults, terminated>>

\* lines 151-154 resetting every signal the handler is registered for, not
\* signum alone
HandlerResetDisposition_ResetsAll(t) ==
    /\ ~terminated
    /\ h[t].pc = "reset"
    /\ disposition' = [s \in FaultSignals |-> SIG_DFL]
    /\ h' = [h EXCEPT ![t].pc = "kill",
                      ![t].resets = @ + 1,
                      ![t].resetSig = h[t].signum]
    /\ UNCHANGED <<platform, envs, stackStateField, signalMask, stackAddr, blocked,
                   throwable, pending, faults, terminated>>

\* lines 151-154
HandlerResetDisposition(t) ==
    /\ ~terminated
    /\ h[t].pc = "reset"
    /\ disposition' = [disposition EXCEPT ![h[t].signum] = SIG_DFL]
    /\ h' = [h EXCEPT ![t].pc = "kill",
                      ![t].resets = @ + 1,
                      ![t].resetSig = h[t].signum]
    /\ UNCHANGED <<platform, envs, stackStateField, signalMask, stackAddr, blocked,
                   throwable, pending, faults, terminated>>

\* line 155 as kill(0, SIGSEGV): the signal generated is SIGSEGV whatever
\* signal the handler was invoked with
HandlerRedeliver_KillsSegv(t) ==
    /\ ~terminated
    /\ h[t].pc = "kill"
    /\ pending' = [pending EXCEPT ![SIGSEGV] =
                      [thread |-> t, env |-> h[t].env, raises |-> h[t].raises]]
    /\ h' = [h EXCEPT ![t] = IdleHandler]
    /\ blocked' = [blocked EXCEPT ![t] = h[t].savedMask]
    /\ UNCHANGED <<platform, envs, stackStateField, disposition, signalMask, stackAddr,
                   throwable, faults, terminated>>

\* lines 155-156: kill(0, signum), then the handler returns and the OS puts
\* back the blocked set the thread had when the handler was entered
HandlerRedeliver(t) ==
    /\ ~terminated
    /\ h[t].pc = "kill"
    /\ pending' = [pending EXCEPT ![h[t].signum] =
                      [thread |-> t, env |-> h[t].env, raises |-> h[t].raises]]
    /\ h' = [h EXCEPT ![t] = IdleHandler]
    /\ blocked' = [blocked EXCEPT ![t] = h[t].savedMask]
    /\ UNCHANGED <<platform, envs, stackStateField, disposition, signalMask, stackAddr,
                   throwable, faults, terminated>>

----------------------------------------------------------------------------
\* the steps of the program and of the OS; calls are not observed
Next ==
    \/ \E t \in Threads, found \in BOOLEAN :
          rvmInitSignals(t, found) /\ UNCHANGED lastCall
    \/ \E t \in Threads, busErr, segvErr, maskErr \in OSResults :
          /\ CallsMade(busErr, segvErr, maskErr)
          /\ rvmSetupSignals(t, busErr, segvErr, maskErr)
          /\ UNCHANGED lastCall
    \/ \E t \in Threads, err \in {0, EINVAL} :
          rvmRestoreSignalMask(t, err) /\ UNCHANGED lastCall
    \/ \E t \in Threads : TearDownSignals(t) /\ UNCHANGED lastCall
    \/ \E t \in Threads, signum \in FaultSignals, nonNative \in BOOLEAN :
          \E faultAddr \in FaultAddrs(stackAddr[t]) :
             /\ Fault(t, signum, faultAddr, ContextOf(t), nonNative)
             /\ UNCHANGED lastCall
    \/ \E t \in Threads, signum \in FaultSignals, nonNative \in BOOLEAN :
          \E faultAddr \in KillAddrs(stackAddr[t]) :
             /\ DeliverPending(t, signum, faultAddr, ContextOf(t), nonNative)
             /\ UNCHANGED lastCall
    \/ \E t \in Threads, ok \in BOOLEAN : HandlerAllocate(t, ok) /\ UNCHANGED lastCall
    \/ \E t \in Threads, crash \in BOOLEAN : HandlerStore(t, crash) /\ UNCHANGED lastCall
    \/ \E t \in Threads, returns \in RaiseReturns :
          HandlerRaise(t, returns) /\ UNCHANGED lastCall
    \/ \E t \in Threads : HandlerResetDisposition(t) /\ UNCHANGED lastCall
    \/ \E t \in Threads : HandlerRedeliver(t) /\ UNCHANGED lastCall

Spec == Init /\ [][Next]_vars

----------------------------------------------------------------------------
(* The public operations with their callers: every call is observed, and  *)
(* between the calls the thread changes its blocked-signal set             *)

\* number of threads that call the public operations
NumCallers == 2

Callers == 1..NumCallers

\* the blocked-signal sets a caller gives itself with pthread_sigmask()
CallerMasks == {{}, {SIGUSR1}, {SIGUSR1, SIGSEGV}}

\* the call op on thread t: ret what it returned (TRUE for a void function),
\* errs the results of its OS calls, before the value it was to replace
Call(op, t, ret, errs, before) ==
    [op |-> op, thread |-> t, ret |-> ret, errs |-> errs, before |-> before]

\* lines 41-45, and the jboolean returned
CallInitSignals(t, found) ==
    /\ rvmInitSignals(t, found)
    /\ lastCall' = Call("rvmInitSignals", t, found, <<0, 0, 0>>, {})

\* lines 79-84, and the jboolean returned; before: the mask stored until now
CallSetupSignals(t, busErr, segvErr, maskErr) ==
    /\ rvmSetupSignals(t, busErr, segvErr, maskErr)
    /\ lastCall' = Call("rvmSetupSignals", t,
                        installSignalHandlers(t, busErr, segvErr, maskErr).ret,
                        <<busErr, segvErr, maskErr>>, signalMask[t])

\* lines 86-88; before: the set blocked until now
CallRestoreSignalMask(t, err) ==
    /\ rvmRestoreSignalMask(t, err)
    /\ lastCall' = Call("rvmRestoreSignalMask", t, TRUE, <<0, 0, err>>, blocked[t])

\* lines 90-91
CallTearDownSignals(t) ==
    /\ TearDownSignals(t)
    /\ lastCall' = Call("rvmTearDownSignals", t, TRUE, <<0, 0, 0>>, {})

\* the caller changes its own blocked set: pthread_sigmask(SIG_SETMASK, &set, NULL)
SetBlockedSignals(t, set) ==
    /\ CanRun(t)
    /\ blocked' = [blocked EXCEPT ![t] = set]
    /\ lastCall' = Call("pthread_sigmask", t, TRUE, <<0, 0, 0>>, blocked[t])
    /\ UNCHANGED <<platform, envs, stackStateField, disposition, signalMask, stackAddr,
                   throwable, h, pending, faults, terminated>>

\* every caller is a runtime thread; no fault is raised
InitCalls ==
    /\ platform \in Platforms
    /\ envs = Threads
    /\ stackStateField = "NULL"
    /\ disposition = [s \in FaultSignals |-> SIG_DFL]
    /\ signalMask = [t \in Threads |-> {}]
    /\ stackAddr = [t \in Threads |-> t * StackStride]
    /\ blocked = [t \in Threads |-> {}]
    /\ throwable = [t \in Threads |-> NullObject]
    /\ h = [t \in Threads |-> IdleHandler]
    /\ pending = [s \in FaultSignals |-> NoSender]
    /\ faults = 0
    /\ terminated = FALSE
    /\ lastCall = NoCall

NextCalls ==
    \/ \E t \in Callers, found \in BOOLEAN : CallInitSignals(t, found)
    \/ \E t \in Callers, busErr, segvErr, maskErr \in OSResults :
          /\ CallsMade(busErr, segvErr, maskErr)
          /\ CallSetupSignals(t, busErr, segvErr, maskErr)
    \/ \E t \in Callers, err \in {0, EINVAL} : CallRestoreSignalMask(t, err)
    \/ \E t \in Callers : CallTearDownSignals(t)
    \/ \E t \in Callers, set \in CallerMasks : SetBlockedSignals(t, set)

CallSpec == InitCalls /\ [][NextCalls]_vars

----------------------------------------------------------------------------
(* Faults on threads that are set up: the field handle is resolved, every  *)
(* thread has called rvmSetupSignals with SIGUSR1 blocked, and more than   *)
(* one thread faults                                                       *)

\* number of hardware faults raised in one run of the threads set up
MaxConcurrentFaults == 2

\* the faults raised: without a faulting address, at the highest address of
\* the guard region, and at the stack base, which lies outside of it
ConcurrentFaultAddrs(base) == {0, base - 1, base}

\* the disposition a successful installSignalHandlers leaves (lines 54-67)
InstalledDisposition ==
    [s \in FaultSignals |->
        IF s = SIGSEGV \/ Darwin THEN signalHandlerFn ELSE SIG_DFL]

\* an illegal memory access of thread t raises signum
ConcurrentFault(t, signum, faultAddr, context, nonNative) ==
    /\ CanRun(t)
    /\ faults < MaxConcurrentFaults
    /\ faults' = faults + 1
    /\ Deliver(t, signum, faultAddr, context, nonNative, "fault", NoSender)
    /\ UNCHANGED <<platform, envs, stackStateField, disposition, signalMask, stackAddr,
                   throwable, pending, lastCall>>

\* the state after rvmInitSignals and, on every thread, rvmSetupSignals
\* succeeded with SIGUSR1 blocked
InitHandlers ==
    /\ platform \in Platforms
    /\ envs = Threads
    /\ stackStateField = "stackState"
    /\ disposition = InstalledDisposition
    /\ signalMask = [t \in Threads |-> {SIGUSR1}]
    /\ stackAddr = [t \in Threads |-> t * StackStride]
    /\ blocked = [t \in Threads |-> {SIGUSR1}]
    /\ throwable = [t \in Threads |-> NullObject]
    /\ h = [t \in Threads |-> IdleHandler]
    /\ pending = [s \in FaultSignals |-> NoSender]
    /\ faults = 0
    /\ terminated = FALSE
    /\ lastCall = NoCall

NextHandlers ==
    \/ \E t \in Threads, signum \in FaultSignals, nonNative \in BOOLEAN :
          \E faultAddr \in ConcurrentFaultAddrs(stackAddr[t]) :
             ConcurrentFault(t, signum, faultAddr, ContextOf(t), nonNative)
    \/ \E t \in Threads, signum \in FaultSignals, nonNative \in BOOLEAN :
          \E faultAddr \in KillAddrs(stackAddr[t]) :
             /\ DeliverPending(t, signum, faultAddr, ContextOf(t), nonNative)
             /\ UNCHANGED lastCall
    \/ \E t \in Threads, ok \in BOOLEAN : HandlerAllocate(t, ok) /\ UNCHANGED lastCall
    \/ \E t \in Threads, crash \in BOOLEAN : HandlerStore(t, crash) /\ UNCHANGED lastCall
    \/ \E t \in Threads, returns \in RaiseReturns :
          HandlerRaise(t, returns) /\ UNCHANGED lastCall
    \/ \E t \in Threads : HandlerResetDisposition(t) /\ UNCHANGED lastCall
    \/ \E t \in Threads : HandlerRedeliver(t) /\ UNCHANGED lastCall
    \/ \E t \in Threads, err \in {0, EINVAL} :
          rvmRestoreSignalMask(t, err) /\ UNCHANGED lastCall
    \/ \E t \in Threads : rvmSetupSignals(t, 0, 0, 0) /\ UNCHANGED lastCall

HandlersSpec == InitHandlers /\ [][NextHandlers]_vars

----------------------------------------------------------------------------
(* What the claims speak of, stated without the handler's own definitions *)

Active(t) == h[t].pc # "idle"

\* thread t's handler runs for a fault on a runtime thread in a managed frame
ManagedFault(t) == Active(t) /\ t \in envs /\ h[t].nonNative

\* addr lies in the guard region [base - guard size, base)
InGuard(addr, base) == base - THREAD_STACK_GUARD_SIZE <= addr /\ addr < base

X86 == platform \in {"DARWIN_X86", "LINUX_X86"}
CapturedPC(context) == IF X86 THEN context.eip ELSE context.pc
CapturedFP(context) == IF X86 THEN context.ebp ELSE context.r7

\* the handler has built its synthetic frame
FrameBuilt(t) == h[t].pc \in {"raise", "reset", "kill"} /\ h[t].allocs > 0

\* the synthetic frame is the captured context's: prev its frame pointer,
\* returnAddress its program counter
FrameOfContext(t) ==
    /\ h[t].fakeFrame.returnAddress = CapturedPC(h[t].context)
    /\ h[t].fakeFrame.prev = CapturedFP(h[t].context)
    /\ h[t].callStack = h[t].fakeFrame

\* the object handed to rvmRaiseException is the new instance of class when
\* the allocation succeeded, and what rvmExceptionClear returned when it failed
RaisesNewOrPending(t, class) ==
    /\ h[t].allocs = 1
    /\ h[t].allocClass = class
    /\ h[t].throwable.class = IF h[t].allocOk THEN class ELSE h[t].pendingBefore.class
    /\ h[t].throwable.code = IF h[t].allocOk THEN 0 ELSE h[t].pendingBefore.code
    /\ (h[t].allocOk /\ h[t].field # "NULL")
          => h[t].throwable.stackState.returnAddress = CapturedPC(h[t].context)

\* the handler of t takes the fallback: nothing allocated, nothing raised
OnFallback(t) ==
    /\ h[t].exClass = NoClass
    /\ h[t].allocs = 0
    /\ h[t].raises = 0
    /\ h[t].pc \in {"reset", "kill"}
    /\ h[t].pc = "kill" => h[t].resets = 1 /\ h[t].resetSig = h[t].signum

\* the steps of t's fallback: the reset sets the triggering signal's disposition
\* to the default, the kill generates that signal once and the handler returns
FallbackSteps(t) ==
    /\ (h[t].pc = "reset" /\ h'[t].pc # "reset")
          => /\ h'[t].pc = "kill"
             /\ disposition'[h[t].signum] = SIG_DFL
    /\ (h[t].pc = "kill" /\ h'[t].pc # "kill")
          => /\ h'[t].pc = "idle"
             /\ pending'[h[t].signum].thread = t
             /\ \A s \in FaultSignals \ {h[t].signum} : pending'[s] = pending[s]

----------------------------------------------------------------------------
(* C1 *)

\* the handler of t is about to hand an exception to rvmRaiseException, having
\* stored the call stack into it through a resolved field handle
RaisesException(t) ==
    h[t].pc = "raise" /\ h[t].throwable # NullObject /\ h[t].field # "NULL"

\* C1 as stated: on a runtime thread in a managed frame, a fault without a
\* faulting address makes the handler raise an exception of the null-pointer
\* class, with a synthetic frame taken from the captured context.
C1_AsStated ==
    \A t \in Threads :
       (ManagedFault(t) /\ h[t].faultAddr = 0 /\ RaisesException(t))
          => /\ h[t].throwable.class = java_lang_NullPointerException
             /\ FrameOfContext(t)

\* C1, amended: for such a fault the handler asks for an instance of the
\* null-pointer class; what it hands to rvmRaiseException is that instance when
\* the allocation succeeded and otherwise what rvmExceptionClear returned; the
\* synthetic frame has returnAddress = the context's program counter and
\* prev = its frame pointer.
C1_NullFaultRaises ==
    \A t \in Threads :
       (ManagedFault(t) /\ h[t].faultAddr = 0)
          => /\ h[t].exClass = java_lang_NullPointerException
             /\ h[t].pc \in {"allocate", "store", "raise", "reset", "kill"}
             /\ h[t].pc = "reset" => h[t].raises = 1
             /\ FrameBuilt(t) => FrameOfContext(t)
             /\ h[t].pc = "raise"
                   => RaisesNewOrPending(t, java_lang_NullPointerException)

C1_Witness ==
    \E t \in Threads :
       /\ ManagedFault(t) /\ h[t].faultAddr = 0 /\ h[t].pc = "raise"
       /\ h[t].allocOk
       /\ h[t].throwable.class = java_lang_NullPointerException
       /\ h[t].throwable.stackState.returnAddress = CapturedPC(ContextOf(t))

----------------------------------------------------------------------------
(* C2 *)

\* C2 as stated: on a runtime thread in a managed frame, a fault at a non-null
\* address a with stackBase - guardSize <= a < stackBase makes the handler raise
\* an exception of the stack-overflow class.
C2_AsStated ==
    \A t \in Threads :
       (ManagedFault(t) /\ h[t].faultAddr # 0
           /\ InGuard(h[t].faultAddr, stackAddr[t]) /\ RaisesException(t))
          => h[t].throwable.class = java_lang_StackOverflowError

\* C2, amended: for such a fault the handler asks for an instance of the
\* stack-overflow class, never of the null-pointer class; what it hands to
\* rvmRaiseException is that instance when the allocation succeeded and
\* otherwise what rvmExceptionClear returned.
C2_GuardFaultRaises ==
    \A t \in Threads :
       (ManagedFault(t) /\ h[t].faultAddr # 0
           /\ InGuard(h[t].faultAddr, stackAddr[t]))
          => /\ h[t].exClass = java_lang_StackOverflowError
             /\ h[t].pc \in {"allocate", "store", "raise", "reset", "kill"}
             /\ h[t].pc = "reset" => h[t].raises = 1
             /\ h[t].pc = "raise"
                   => RaisesNewOrPending(t, java_lang_StackOverflowError)

C2_Witness ==
    \E t \in Threads :
       /\ ManagedFault(t) /\ h[t].pc = "raise"
       /\ h[t].faultAddr = stackAddr[t] - THREAD_STACK_GUARD_SIZE
       /\ h[t].allocOk
       /\ h[t].throwable.class = java_lang_StackOverflowError

----------------------------------------------------------------------------
(* C3 *)

\* the faults C3 is about: a non-null address outside the guard region, or any
\* fault while the runtime thread's current frame is native
DeclinedFault(t) ==
    /\ Active(t) /\ t \in envs
    /\ \/ ~h[t].nonNative
       \/ h[t].faultAddr # 0 /\ ~InGuard(h[t].faultAddr, stackAddr[t])

\* C3, the handler's own part: for such a fault nothing is allocated or raised,
\* the triggering signal's disposition is set to the default and that signal is
\* generated once.
C3_HandlerDeclines ==
    /\ [](\A t \in Threads : DeclinedFault(t) => OnFallback(t))
    /\ [][\A t \in Threads : DeclinedFault(t) => FallbackSteps(t)]_vars

\* C3 as stated: as C3_HandlerDeclines, and the signal such a handler generated
\* never starts signalHandler again.
C3_AsStated ==
    \A t \in Threads :
       /\ DeclinedFault(t) => OnFallback(t)
       /\ Active(t) => ~(h[t].cause = "kill" /\ h[t].sender.env # NULL
                            /\ h[t].sender.raises = 0)

----------------------------------------------------------------------------
(* C4 *)

\* C4: on a thread without an Env the handler takes the fallback whatever the
\* faulting address is (nothing allocated, nothing raised, the disposition set
\* to the default, the signal generated again) and reads nothing through env.
C4_NoEnvFallsBack ==
    /\ [](\A t \in Threads :
            (Active(t) /\ t \notin envs) => OnFallback(t) /\ h[t].envReads = 0)
    /\ [][\A t \in Threads : (Active(t) /\ t \notin envs) => FallbackSteps(t)]_vars

C4_Witness ==
    \E t \in Threads :
       /\ Active(t) /\ t \notin envs /\ h[t].pc = "kill" /\ h[t].nonNative
       /\ InGuard(h[t].faultAddr, stackAddr[t])
       /\ disposition[h[t].signum] = SIG_DFL

----------------------------------------------------------------------------
(* C5 *)

\* the scenario's thread: stack base 0x1000000, managed frame, with an Env
ScenarioFault(t) == ManagedFault(t) /\ stackAddr[t] = 16 * 1048576

\* C5 as stated: under the scenario 0x0 is a null-pointer fault, 0x0FFFFF00 a
\* stack-overflow fault and 0x2000000 is declined.
C5_AsStated ==
    \A t \in Threads :
       ScenarioFault(t)
          => /\ h[t].faultAddr = 0
                   => h[t].exClass = java_lang_NullPointerException
             /\ h[t].faultAddr = 268435200
                   => h[t].exClass = java_lang_StackOverflowError
             /\ h[t].faultAddr = 33554432 => OnFallback(t)

\* C5, amended: under the scenario 0x0 is a null-pointer fault; 0x0FFFFF00 lies
\* above the stack base 0x1000000, so it is declined as 0x2000000 is: the
\* disposition is set to the default and the signal is generated again.
C5_Scenario ==
    /\ [](\A t \in Threads :
            ScenarioFault(t)
               => /\ h[t].faultAddr = 0
                        => h[t].exClass = java_lang_NullPointerException
                  /\ h[t].faultAddr \in ScenarioAddrs => OnFallback(t))
    /\ [][\A t \in Threads :
            (ScenarioFault(t) /\ h[t].faultAddr \in ScenarioAddrs)
               => FallbackSteps(t)]_vars

C5_Witness ==
    \E t \in Threads :
       /\ ScenarioFault(t) /\ h[t].faultAddr = 268435200 /\ h[t].pc = "kill"
       /\ disposition[h[t].signum] = SIG_DFL

----------------------------------------------------------------------------
(* C6 *)

\* C6 as stated: when a call of rvmSetupSignals fails (it makes an InternalError
\* pending), the dispositions are what they were before the call.
C6_AsStated ==
    [][\A t \in Threads :
          (throwable'[t] # throwable[t]
              /\ throwable'[t].class = java_lang_InternalError)
             => disposition' = disposition]_vars

----------------------------------------------------------------------------
(* C7 *)

\* C7 as stated: the object the handler stores the call stack into and raises is
\* never the null reference.
C7_AsStated ==
    \A t \in Threads :
       (h[t].pc \in {"store", "raise"} /\ stackStateField # "NULL")
          => h[t].throwable # NullObject

----------------------------------------------------------------------------
(* C8 *)

\* C8 as stated: an invocation that called rvmRaiseException (with an exception
\* whose call stack it had stored) never resets the disposition or generates the
\* signal again.
C8_AsStated ==
    \A t \in Threads :
       (h[t].raises > 0 /\ h[t].raised # NullObject /\ h[t].field # "NULL")
          => h[t].resets = 0 /\ h[t].pc # "kill"

----------------------------------------------------------------------------
(* C9 *)

\* C9 as stated: a signal generated by the fallback's kill() never starts
\* signalHandler.
C9_AsStated ==
    \A t \in Threads : Active(t) => h[t].cause # "kill"

----------------------------------------------------------------------------
(* C10 *)

\* C10 as stated: whenever the handler has stored the call stack through
\* stackStateField, the field handle was resolved.
C10_AsStated ==
    \A t \in Threads : h[t].pc = "raise" => h[t].field # "NULL"

----------------------------------------------------------------------------
(* C11 *)

\* the step is a call of op that returned
Returned(op) == lastCall'.op = op

\* C11: a call of rvmSetupSignals that returns success stores into the calling
\* thread's signalMask exactly the set blocked on that thread when it was
\* called, whatever was stored before, and changes neither the stored mask of
\* another thread nor any thread's blocked set.
C11_SetupCapturesMask ==
    [][(Returned("rvmSetupSignals") /\ lastCall'.ret)
          => /\ signalMask'[lastCall'.thread] = blocked[lastCall'.thread]
             /\ \A u \in Threads \ {lastCall'.thread} :
                   signalMask'[u] = signalMask[u]
             /\ blocked' = blocked]_vars

\* a second successful call on a thread replaced the non-empty mask the first
\* had stored by the different set blocked at the second, while the other
\* thread keeps a third stored mask
C11_Witness ==
    /\ lastCall.op = "rvmSetupSignals" /\ lastCall.ret
    /\ lastCall.before # {}
    /\ signalMask[lastCall.thread] # lastCall.before
    /\ signalMask[lastCall.thread] = blocked[lastCall.thread]
    /\ \E u \in Threads \ {lastCall.thread} :
          /\ signalMask[u] \notin {{}, signalMask[lastCall.thread]}
          /\ blocked[u] # signalMask[u]

----------------------------------------------------------------------------
(* C12 *)

\* C12 as stated: on a thread whose stored mask was captured by a successful
\* rvmSetupSignals, every call of rvmRestoreSignalMask makes the thread's
\* blocked set equal to the stored mask and leaves the stored mask unchanged.
C12_AsStated ==
    [][(Returned("rvmRestoreSignalMask") /\ signalMask[lastCall'.thread] # {})
          => /\ blocked'[lastCall'.thread] = signalMask[lastCall'.thread]
             /\ signalMask' = signalMask]_vars

\* C12, amended: a call of rvmRestoreSignalMask whose pthread_sigmask succeeds
\* makes the calling thread's blocked set exactly the stored mask (set, not
\* added to or removed from); one whose pthread_sigmask fails leaves the
\* blocked set as it was; both leave every stored mask and every other thread's
\* blocked set unchanged.
C12_RestoreRoundTrip ==
    [][Returned("rvmRestoreSignalMask")
          => /\ blocked'[lastCall'.thread] =
                   IF lastCall'.errs[3] = 0 THEN signalMask[lastCall'.thread]
                   ELSE blocked[lastCall'.thread]
             /\ \A u \in Threads \ {lastCall'.thread} : blocked'[u] = blocked[u]
             /\ signalMask' = signalMask]_vars

\* a restore put back a captured, non-empty mask on a thread that had blocked
\* more signals since the capture
C12_Witness ==
    /\ lastCall.op = "rvmRestoreSignalMask" /\ lastCall.errs[3] = 0
    /\ signalMask[lastCall.thread] = {SIGUSR1}
    /\ lastCall.before = {SIGUSR1, SIGSEGV}
    /\ blocked[lastCall.thread] = {SIGUSR1}

----------------------------------------------------------------------------
(* C13 *)

\* C13: rvmRestoreSignalMask never raises: no call of it changes the exception
\* pending on any Env or ends the process, and a call whose pthread_sigmask
\* fails changes nothing else either: the stored masks, the blocked sets, the
\* signal dispositions and the field handle are what they were.
C13_RestoreNeverRaises ==
    [][Returned("rvmRestoreSignalMask")
          => /\ throwable' = throwable
             /\ terminated' = terminated
             /\ lastCall'.ret
             /\ lastCall'.errs[3] # 0
                   => UNCHANGED <<signalMask, blocked, disposition, stackStateField,
                                  stackAddr>>]_vars

\* a restore whose pthread_sigmask failed returned on a thread whose blocked set
\* differs from its stored mask, with the handlers installed and nothing pending
C13_Witness ==
    /\ lastCall.op = "rvmRestoreSignalMask" /\ lastCall.errs[3] = EINVAL
    /\ blocked[lastCall.thread] # signalMask[lastCall.thread]
    /\ throwable[lastCall.thread] = NullObject
    /\ disposition[SIGSEGV] = signalHandlerFn
    /\ ~terminated

----------------------------------------------------------------------------
(* C14 *)

\* the result of the first OS call that failed, 0 when none did
FirstError(errs) ==
    IF errs[1] # 0 THEN errs[1] ELSE IF errs[2] # 0 THEN errs[2] ELSE errs[3]

\* C14: rvmSetupSignals returns failure exactly when one of its OS calls
\* (sigaction for SIGBUS where compiled in, sigaction for SIGSEGV,
\* pthread_sigmask) fails.  On failure an InternalError carrying the result of
\* the first failing call is pending on the caller's Env and the later calls had
\* no effect: the disposition of SIGSEGV is untouched after a failing SIGBUS
\* registration, the stored mask is untouched after any failure.  On success
\* the pending exception is what it was.  No other Env is touched.
C14_SetupFailsIffOSFails ==
    [][Returned("rvmSetupSignals")
          => LET t == lastCall'.thread
                 errs == lastCall'.errs
             IN /\ lastCall'.ret <=> FirstError(errs) = 0
                /\ ~lastCall'.ret
                      => /\ throwable'[t].class = java_lang_InternalError
                         /\ throwable'[t].code = FirstError(errs)
                         /\ signalMask' = signalMask
                         /\ errs[1] # 0 => disposition' = disposition
                         /\ errs[2] # 0
                               => disposition'[SIGSEGV] = disposition[SIGSEGV]
                /\ lastCall'.ret => throwable'[t] = throwable[t]
                /\ \A u \in Threads \ {t} : throwable'[u] = throwable[u]]_vars

\* a setup failed at the registration for SIGSEGV, after the one for SIGBUS:
\* the error of that call is pending, and the thread's blocked set, which
\* differs from its stored mask, was not captured
C14_Witness ==
    /\ lastCall.op = "rvmSetupSignals" /\ ~lastCall.ret
    /\ lastCall.errs = <<0, EFAULT, 0>>
    /\ Darwin
    /\ throwable[lastCall.thread].class = java_lang_InternalError
    /\ throwable[lastCall.thread].code = EFAULT
    /\ disposition[SIGBUS] = signalHandlerFn
    /\ disposition[SIGSEGV] = SIG_DFL
    /\ blocked[lastCall.thread] # signalMask[lastCall.thread]

----------------------------------------------------------------------------
(* C18 *)

\* C18: rvmTearDownSignals performs no action.  A call of it leaves the signal
\* dispositions, every thread's stored mask and blocked set, the field handle
\* and every pending exception unchanged; and where installSignalHandlers
\* calls it after a failure, the handlers registered before the failure are
\* still registered.
C18_TearDownDoesNothing ==
    [][/\ Returned("rvmTearDownSignals")
             => UNCHANGED <<disposition, signalMask, blocked, stackStateField,
                            throwable, stackAddr, terminated>>
       /\ (Returned("rvmSetupSignals") /\ ~lastCall'.ret)
             => /\ (Darwin /\ lastCall'.errs[1] = 0)
                      => disposition'[SIGBUS] = signalHandlerFn
                /\ (lastCall'.errs[1] = 0 /\ lastCall'.errs[2] = 0)
                      => disposition'[SIGSEGV] = signalHandlerFn]_vars

\* rvmTearDownSignals returned on a thread with the handlers installed, a
\* stored mask, a different blocked set, a resolved field handle and a pending
\* exception: all are still there
C18_Witness ==
    /\ lastCall.op = "rvmTearDownSignals"
    /\ disposition[SIGSEGV] = signalHandlerFn
    /\ signalMask[lastCall.thread] # {}
    /\ blocked[lastCall.thread] # signalMask[lastCall.thread]
    /\ stackStateField # "NULL"
    /\ throwable[lastCall.thread] # NullObject

----------------------------------------------------------------------------
(* C16 *)

\* the classification of the fault thread t's handler runs for, from the
\* fault alone: none without an Env or in a native frame, null-pointer without
\* a faulting address, stack-overflow inside the guard region
Classified(t) ==
    IF t \notin envs \/ ~h[t].nonNative THEN NoClass
    ELSE IF h[t].faultAddr = 0 THEN java_lang_NullPointerException
    ELSE IF InGuard(h[t].faultAddr, stackAddr[t]) THEN java_lang_StackOverflowError
    ELSE NoClass

\* C16: in one invocation the classification is made before anything is
\* allocated and stays what it was: rvmAllocateObject is called at most once,
\* only for a fault classified null-pointer or stack-overflow, for the class of
\* that classification, and the classification is the same after the call,
\* failed or not; for a fault that is not classified (outside both ranges, in a
\* native frame, without an Env) nothing is allocated, no frame is built and no
\* call stack captured.
C16_ClassifiedBeforeAllocation ==
    /\ [](\A t \in Threads :
             Active(t)
                => /\ h[t].exClass = Classified(t)
                   /\ h[t].allocs <= 1
                   /\ h[t].pc = "allocate"
                         => h[t].allocs = 0 /\ h[t].exClass # NoClass
                   /\ h[t].allocs = 1
                         => /\ h[t].exClass # NoClass
                            /\ h[t].allocClass = h[t].exClass
                   /\ h[t].exClass = NoClass
                         => /\ h[t].allocs = 0
                            /\ h[t].fakeFrame = NoFrame
                            /\ h[t].callStack = NoFrame
                            /\ h[t].raises = 0)
    /\ [][\A t \in Threads :
             (Active(t) /\ h'[t].pc # "idle")
                => /\ h'[t].exClass = h[t].exClass
                   /\ h'[t].allocs >= h[t].allocs
                   /\ h'[t].allocs > h[t].allocs => h[t].pc = "allocate"]_vars

\* an allocation failed for a fault classified stack-overflow: the handler goes
\* on with that classification
C16_Witness ==
    \E t \in Threads :
       /\ h[t].pc \in {"store", "raise"}
       /\ h[t].allocs = 1 /\ ~h[t].allocOk
       /\ h[t].faultAddr = stackAddr[t] - 1
       /\ h[t].exClass = java_lang_StackOverflowError
       /\ h[t].allocClass = java_lang_StackOverflowError

----------------------------------------------------------------------------
(* C15 *)

\* the step is a fault without a faulting address, raised as signum by thread
\* t in a managed frame
NullFaultStep(t, signum) == ConcurrentFault(t, signum, 0, ContextOf(t), TRUE)

\* the signals a successful rvmSetupSignals registers signalHandler for
Registered == IF Darwin THEN {SIGBUS, SIGSEGV} ELSE {SIGSEGV}

\* C15 as stated: once rvmSetupSignals has succeeded, a managed-frame fault
\* without a faulting address on a runtime thread, raised as a signal the setup
\* registered the handler for, never ends in the default action.
C15_AsStated ==
    [][\A t \in Threads, signum \in Registered :
          (signum \notin blocked[t] /\ NullFaultStep(t, signum))
             => ~terminated']_vars

\* C15, amended: a successful rvmSetupSignals leaves signalHandler as the
\* disposition of SIGSEGV and, on Darwin, of SIGBUS, and leaves the disposition
\* of SIGBUS untouched elsewhere.  While that disposition has not been reset and
\* the signal is not blocked on the thread, a managed-frame fault without a
\* faulting address on a runtime thread enters signalHandler, which asks for an
\* instance of the null-pointer class and hands that instance, or when the
\* allocation failed what rvmExceptionClear returned, to rvmRaiseException.
C15_SetupInstallsHandler ==
    /\ [][\A t \in Threads :
             rvmSetupSignals(t, 0, 0, 0)
                => /\ disposition'[SIGSEGV] = signalHandlerFn
                   /\ Darwin => disposition'[SIGBUS] = signalHandlerFn
                   /\ ~Darwin => disposition'[SIGBUS] = disposition[SIGBUS]]_vars
    /\ [][\A t \in Threads, signum \in FaultSignals :
             (disposition[signum] = signalHandlerFn /\ signum \notin blocked[t]
                 /\ NullFaultStep(t, signum))
                => /\ ~terminated'
                   /\ h'[t].pc = "allocate"
                   /\ h'[t].signum = signum
                   /\ h'[t].exClass = java_lang_NullPointerException]_vars
    /\ [](\A t \in Threads :
             (ManagedFault(t) /\ h[t].faultAddr = 0 /\ h[t].pc = "raise")
                => RaisesNewOrPending(t, java_lang_NullPointerException))

\* a thread that called rvmSetupSignals again with SIGSEGV blocked (its stored
\* mask shows it) dereferences null, which raises SIGBUS: the handler is about
\* to raise a new NullPointerException
C15_Witness ==
    \E t \in Threads :
       /\ SIGSEGV \in signalMask[t]
       /\ h[t].pc = "raise" /\ h[t].cause = "fault" /\ h[t].signum = SIGBUS
       /\ h[t].faultAddr = 0 /\ h[t].nonNative
       /\ h[t].allocOk
       /\ h[t].throwable.class = java_lang_NullPointerException

----------------------------------------------------------------------------
(* C17 *)

\* the step is one of the invocation of signalHandler that runs on thread t
HandlerStep(t) == Active(t) /\ h'[t] # h[t]

\* C17 as stated: no step of an invocation that raised nothing changes state
\* that decides how a fault of another thread is handled: the signal
\* dispositions and the signals waiting for delivery stay what they were.
C17_AsStated ==
    [][\A t \in Threads :
          (HandlerStep(t) /\ h[t].raises = 0)
             => disposition' = disposition /\ pending' = pending]_vars

\* C17, amended: of the state that decides how a fault of another thread is
\* handled, an invocation on thread t changes the disposition of its own signal
\* (set to the default at lines 151-154) and the pending instance of that signal
\* (generated at line 155), nothing else: not the other threads' handlers,
\* blocked sets, stored masks, stack bases and pending exceptions, not the field
\* handle.  And with another thread's handler running or returned, a
\* managed-frame fault without a faulting address on a thread that does not
\* block the signal, whose disposition is signalHandler, enters signalHandler
\* and is classified null-pointer.
C17_OtherThreadsFaults ==
    /\ [][\A t \in Threads :
             HandlerStep(t)
                => /\ \A u \in Threads \ {t} :
                         /\ h'[u] = h[u]
                         /\ blocked'[u] = blocked[u]
                         /\ throwable'[u] = throwable[u]
                   /\ UNCHANGED <<signalMask, stackAddr, stackStateField, envs>>
                   /\ \A s \in FaultSignals :
                         /\ disposition'[s] # disposition[s]
                               => /\ s = h[t].signum /\ h[t].pc = "reset"
                                  /\ disposition'[s] = SIG_DFL
                         /\ pending'[s] # pending[s]
                               => /\ s = h[t].signum /\ h[t].pc = "kill"
                                  /\ pending'[s].thread = t]_vars
    /\ [][\A t \in Threads, signum \in FaultSignals :
             (/\ \E u \in Threads \ {t} : Active(u) \/ blocked[u] # signalMask[u]
              /\ disposition[signum] = signalHandlerFn
              /\ signum \notin blocked[t]
              /\ NullFaultStep(t, signum))
                => /\ ~terminated'
                   /\ h'[t].pc = "allocate"
                   /\ h'[t].exClass = java_lang_NullPointerException
                   /\ \A u \in Threads \ {t} : h'[u] = h[u]]_vars

\* thread u's handler raised and did not come back (its signal is still
\* blocked on u); thread t's null fault, the second of the run, is about to be
\* raised as a new NullPointerException
C17_Witness ==
    \E t \in Threads, u \in Threads :
       /\ t # u
       /\ faults = 2
       /\ h[u].pc = "idle" /\ blocked[u] \cap FaultSignals # {}
       /\ h[t].pc = "raise" /\ h[t].cause = "fault" /\ h[t].faultAddr = 0
       /\ h[t].allocOk
       /\ h[t].throwable.class = java_lang_NullPointerException

----------------------------------------------------------------------------
(* C19 *)

\* the step enters signalHandler on thread t
HandlerEntry(t) == ~Active(t) /\ h'[t].pc # "idle"

\* the step is a call of rvmRestoreSignalMask
RestoreStep == \E t \in Threads, err \in {0, EINVAL} : rvmRestoreSignalMask(t, err)

\* C19: signalHandler only reads the field handle, the stored mask and the
\* stack base: no step of an invocation, from its entry to its return or its
\* raise, on any path, changes stackStateField, a thread's signalMask or a
\* thread's stackAddr; and no call of rvmRestoreSignalMask changes them.
C19_HandlerOnlyReads ==
    [][((\E t \in Threads : HandlerEntry(t) \/ HandlerStep(t)) \/ RestoreStep)
          => UNCHANGED <<stackStateField, signalMask, stackAddr>>]_vars

\* thread t's handler has allocated, stored, raised, come back and reset the
\* disposition, and is about to generate the signal again, after the handler
\* of thread u has ended and u's blocked set is the stored mask again: the
\* field handle, the stored masks and the stack bases are what they were
\* when the threads were set up
C19_Witness ==
    \E t \in Threads, u \in Threads :
       /\ t # u
       /\ faults = 2 /\ ~terminated
       /\ \A s \in FaultSignals : pending[s] = NoSender
       /\ h[u].pc = "idle" /\ blocked[u] = signalMask[u]
       /\ h[t].pc = "kill" /\ h[t].cause = "fault" /\ h[t].raises = 1
       /\ h[t].allocOk /\ h[t].field = "stackState"
       /\ stackStateField = "stackState"
       /\ signalMask = [x \in Threads |-> {SIGUSR1}]
       /\ stackAddr = [x \in Threads |-> x * StackStride]

----------------------------------------------------------------------------
(* C20 *)

\* C20: the fallback of an invocation entered with signum resets the
\* disposition of signum and of no other signal, and the signal it generates
\* is signum: where both SIGBUS and SIGSEGV have the handler, the other one
\* keeps it through both steps.
C20_FallbackTouchesOwnSignal ==
    /\ [](\A t \in Threads :
             h[t].pc = "kill" => h[t].resets = 1 /\ h[t].resetSig = h[t].signum)
    /\ [][\A t \in Threads :
             /\ (h[t].pc = "reset" /\ h'[t].pc # "reset")
                   => /\ h'[t].pc = "kill"
                      /\ h'[t].signum = h[t].signum
                      /\ disposition'[h[t].signum] = SIG_DFL
                      /\ \A s \in FaultSignals \ {h[t].signum} :
                            disposition'[s] = disposition[s]
                      /\ pending' = pending
             /\ (h[t].pc = "kill" /\ h'[t].pc # "kill")
                   => /\ pending'[h[t].signum].thread = t
                      /\ \A s \in FaultSignals \ {h[t].signum} :
                            pending'[s] = pending[s]
                      /\ disposition' = disposition]_vars

\* on Darwin a fallback entered with SIGBUS has reset the disposition of
\* SIGBUS and is about to generate SIGBUS; SIGSEGV still has the handler
C20_Witness ==
    \E t \in Threads :
       /\ Darwin
       /\ h[t].pc = "kill" /\ h[t].signum = SIGBUS /\ h[t].exClass = NoClass
       /\ disposition[SIGBUS] = SIG_DFL
       /\ disposition[SIGSEGV] = signalHandlerFn

====
